---- MODULE Spec2Model ----
(***************************************************************************)
(* Hotspot-Helsinki: the fixed-window rate limiter (api/_lib/rateLimiter), *)
(* the places proxy that is guarded by it, the events aggregator with its  *)
(* two-tier cache, and the liked events of the client's personalization.   *)
(***************************************************************************)
EXTENDS Integers, Sequences, FiniteSets, TLC

VARIABLES
    clock,      \* Date.now(), in ms
    store,      \* rateLimiter: the Map identifier -> {count, resetTime}
    last,       \* history: per identifier, the record and result of its latest call
    call,       \* history: the latest call: its identifier and the results compared
    recent,     \* history: per identifier, times of the allowed calls of the last windowMs
    solo,       \* reference: per identifier, a store that saw only its own requests
    plain,      \* reference: a store that is never swept
    apiKey,     \* places proxy: GOOGLE_PLACES_API_KEY is configured
    res,        \* places proxy: the response sent to the latest request
    CACHE,      \* events: the in-memory micro-cache {at, json} of the instance (tier 1)
    fromKv,     \* history: the payload in CACHE was read from tier 2 (not aggregated here)
    kvStore,    \* events: the Vercel KV entry under KV_KEY with its expiry (tier 2)
    kvUrl,      \* events: process.env.KV_REST_API_URL is set
    pending,    \* events: kv.set calls issued and not yet settled
    upstreams,  \* events: the adapters whose upstream answers (the others fail)
    undated,    \* events: the adapters whose upstream lists an item without a usable start
    handlers,   \* events: the handler invocations in flight on the instance
    received,   \* events: the requests received from the client in its 15 minutes
    resp,       \* events: the response sent by the latest step (NoResp: it sent none)
    replaced,   \* history: the at of the CACHE value that the latest write replaced
    likedEvents,    \* personalization: localStorage under LIKED_EVENTS_KEY, parsed
    categoryPrefs,  \* personalization: localStorage under CATEGORY_PREFS_KEY, parsed
    arg,        \* functions: the arguments drawn for one application
    result      \* functions: what the application returned

limiterVars == <<store, last, call, recent, solo, plain>>

placesVars == <<apiKey, res>>

cacheVars ==
    <<CACHE, fromKv, kvStore, kvUrl, upstreams, undated, pending, handlers, received, resp,
      replaced>>

pureVars == <<arg, result>>

likeVars == <<likedEvents, categoryPrefs>>

vars == <<clock, limiterVars, placesVars, cacheVars, pureVars, likeVars>>

-----------------------------------------------------------------------------
(* Bounds of the model *)

\* createRateLimiter({maxRequests, windowMs}): the configuration, scaled down
maxRequests == 2
windowMs == 2
\* last value of the clock in the limiter specifications
MaxTime == 4
\* a record is not counted further than this many requests over the limit
MaxOver == 2
\* last value of the clock in the places specification
PlacesMaxTime == 3
\* kv.set calls that can be unsettled at once
MaxPending == 1
\* the clock of the cache specification stops after this many ticks
MaxTicks == 8
\* the clock of the events specification stops after this many ticks
MaxEventsTicks == 3
\* the requests per window that SECURITY.md grants a client of the events
\* endpoint, scaled down; received counts one request further
DocumentedLimit == 2
MaxReceived == DocumentedLimit + 1
\* the longest list given to dedupeEvents
MaxLen == 3
\* the clock of the specification of interleaved handlers stops after this many ticks
MaxConcurrentTicks == 1
\* last value of the clock in the personalization specification
MaxLikesTime == 2
\* a category is not liked further than this count
MaxLikes == 3

Max(a, b) == IF a >= b THEN a ELSE b

-----------------------------------------------------------------------------
(* Rate limiter *)

\* new Date(ms).toISOString() and its inverse Date.parse
toISOString(ms) == <<"ISO", ms>>
parseISO(s) == s[2]

\* The header / socket combinations a request arrives with. "" and <<>> are
\* the absent header; forwarded is the x-forwarded-for list, split and trimmed.
Requests ==
    [realIp : {"", "a"}, forwarded : {<<>>, <<"a", "b">>}, remote : {"", "a"}]

getClientIdentifier(req) ==
    IF req.realIp # "" THEN req.realIp
    ELSE IF req.forwarded # <<>> THEN req.forwarded[1]
    ELSE IF req.remote # "" THEN req.remote
    ELSE "unknown"

Identifiers == {getClientIdentifier(r) : r \in Requests}

\* the key of the record a request is counted on
storeKeyShared(req) == "a"
storeKey(req) == getClientIdentifier(req)

\* line 45: the record is missing or its window is over
isNewWindowAtBoundary(st, id, now) ==
    id \notin DOMAIN st \/ now - st[id].resetTime >= windowMs
isNewWindow(st, id, now) ==
    id \notin DOMAIN st \/ now - st[id].resetTime > windowMs

\* line 60
allowedStrict(count) == count < maxRequests
allowed(count) == count <= maxRequests

\* line 33: the sweep's test on one record
isStaleAtBoundary(data, now) == now - data.resetTime >= windowMs
isStale(data, now) == now - data.resetTime > windowMs

\* rateLimitMiddleware(req) at time now on the Map st: the Map afterwards,
\* the record counted on, and the returned object
rateLimitMiddlewareSliding(st, req, now) ==
    LET identifier == storeKey(req)
        clientData == IF isNewWindow(st, identifier, now)
                      THEN [count |-> 0, resetTime |-> now]
                      ELSE st[identifier]
        counted == [clientData EXCEPT !.count = @ + 1,
                                      !.resetTime = IF allowed(clientData.count + 1)
                                                    THEN @ ELSE now]
    IN  [ store  |-> [k \in DOMAIN st \cup {identifier} |->
                          IF k = identifier THEN counted ELSE st[k]],
          data   |-> counted,
          result |-> [ allowed   |-> allowed(counted.count),
                       remaining |-> Max(0, maxRequests - counted.count),
                       resetTime |-> toISOString(counted.resetTime + windowMs),
                       limit     |-> maxRequests ] ]
rateLimitMiddleware(st, req, now) ==
    LET identifier == storeKey(req)
        clientData == IF isNewWindow(st, identifier, now)
                      THEN [count |-> 0, resetTime |-> now]
                      ELSE st[identifier]
        counted == [clientData EXCEPT !.count = @ + 1]
    IN  [ store  |-> [k \in DOMAIN st \cup {identifier} |->
                          IF k = identifier THEN counted ELSE st[k]],
          data   |-> counted,
          result |-> [ allowed   |-> allowed(counted.count),
                       remaining |-> Max(0, maxRequests - counted.count),
                       resetTime |-> toISOString(counted.resetTime + windowMs),
                       limit     |-> maxRequests ] ]

\* the setInterval callback of createRateLimiter
sweep(st, now) ==
    [k \in {i \in DOMAIN st : ~isStale(st[i], now)} |-> st[k]]

Put(f, k, v) == [x \in DOMAIN f \cup {k} |-> IF x = k THEN v ELSE f[x]]

EmptyMap == [k \in {} |-> 0]

-----------------------------------------------------------------------------
(* Places proxy (api/google-places): handler and its validators *)

\* A query parameter is one of: "absent" (undefined or ''), "ok" (passes its
\* validator), "bad" (a string its validator rejects), "blank" (a string of
\* spaces only), "array" (the parameter was repeated, so it is not a string).
NoParams ==
    [ placeId |-> "absent", query |-> "absent", lat |-> "absent", lng |-> "absent",
      radius |-> "absent", type |-> "absent", photoReference |-> "absent",
      maxWidth |-> "absent" ]

Coord == {"absent", "ok", "bad"}

PlacesQueries ==
    {[action |-> "other", p |-> NoParams]}
    \cup {[action |-> "details", p |-> [NoParams EXCEPT !.placeId = v]] :
             v \in {"absent", "ok", "bad", "array"}}
    \cup {[action |-> "search",
           p |-> [NoParams EXCEPT !.query = q, !.lat = la, !.lng = lo]] :
             q \in {"absent", "ok", "blank", "array"}, la \in Coord, lo \in {"ok", "bad"}}
    \cup {[action |-> "nearby",
           p |-> [NoParams EXCEPT !.lat = la, !.lng = lo, !.radius = r, !.type = t]] :
             la \in Coord, lo \in {"ok", "bad"}, r \in {"absent", "ok", "bad"},
             t \in {"absent", "ok", "blank"}}
    \cup {[action |-> "photo",
           p |-> [NoParams EXCEPT !.photoReference = v, !.maxWidth = w]] :
             v \in {"absent", "ok", "bad"}, w \in {"absent", "ok", "bad"}}

\* what the upstream fetch does: data.status OK, another status, or it throws
Upstreams == {"OK", "ZERO_RESULTS", "throws"}

\* Each validator returns "" when it accepts and the message it throws otherwise.
validateLatitude(v) == IF v = "ok" THEN "" ELSE "Invalid latitude"
validateLongitude(v) == IF v = "ok" THEN "" ELSE "Invalid longitude"
validatePlaceId(v) == IF v = "ok" THEN "" ELSE "Invalid place ID format"
validatePhotoReference(v) == IF v = "ok" THEN "" ELSE "Invalid photo reference format"
validateNumber(v) == IF v = "ok" THEN "" ELSE "Invalid number"
validateString(v) ==
    IF v = "array" THEN "Value must be a string"
    ELSE IF v = "blank" THEN "String cannot be empty"
    ELSE ""
validateAction(v) ==
    IF v \in {"details", "search", "nearby", "photo"} THEN "" ELSE "Invalid action"

\* error.message.includes('Invalid')
includesInvalid(msg) ==
    msg \in { "Invalid latitude", "Invalid longitude", "Invalid place ID format",
              "Invalid photo reference format", "Invalid number", "Invalid action" }

\* the first message thrown by a sequence of validations, "" if none throws
RECURSIVE firstThrown(_)
firstThrown(msgs) ==
    IF msgs = <<>> THEN ""
    ELSE IF msgs[1] # "" THEN msgs[1] ELSE firstThrown(Tail(msgs))

\* an omitted argument takes the default of the function's signature
withDefault(v) == IF v = "absent" THEN "ok" ELSE v

\* The outcome of one of handlePlaceDetails / handleSearch / handleNearby /
\* handlePhoto: the status sent (0 when it threw), the message thrown, the
\* number of upstream fetches and whether a redirect was sent.
Outcome(status, body, thrown, fetches, cacheControl) ==
    [ status |-> status, body |-> body, thrown |-> thrown, fetches |-> fetches,
      cacheControl |-> cacheControl ]

\* fetch(url), response.json() and the mapping of data.status
afterFetch(up, maxAge) ==
    IF up = "throws" THEN Outcome(0, "", "fetch failed", 1, "")
    ELSE IF up = "OK" THEN Outcome(200, "result", "", 1, maxAge)
    ELSE Outcome(404, "not found", "", 1, "")

\* the validations of a handler run first; a throw skips the rest of it
fetchBeforeValidation(thrown, then) ==
    IF thrown # "" THEN Outcome(0, "", thrown, then.fetches, "") ELSE then
afterValidation(thrown, then) ==
    IF thrown # "" THEN Outcome(0, "", thrown, 0, "") ELSE then

handlePlaceDetails(p, up) ==
    IF p.placeId = "absent" THEN Outcome(400, "placeId is required", "", 0, "")
    ELSE afterValidation(validatePlaceId(p.placeId), afterFetch(up, "s-maxage=3600"))

handleSearch(p, up) ==
    IF p.query = "absent" \/ p.lat = "absent" \/ p.lng = "absent"
    THEN Outcome(400, "query, lat, and lng are required", "", 0, "")
    ELSE afterValidation(
             firstThrown(<<validateString(p.query), validateLatitude(p.lat),
                           validateLongitude(p.lng)>>),
             afterFetch(up, "s-maxage=3600"))

handleNearby(p, up) ==
    IF p.lat = "absent" \/ p.lng = "absent"
    THEN Outcome(400, "lat and lng are required", "", 0, "")
    ELSE afterValidation(
             firstThrown(<<validateLatitude(p.lat), validateLongitude(p.lng),
                           validateNumber(withDefault(p.radius)),
                           validateString(withDefault(p.type))>>),
             afterFetch(up, "s-maxage=1800"))

handlePhoto(p, up) ==
    IF p.photoReference = "absent"
    THEN Outcome(400, "photoReference is required", "", 0, "")
    ELSE afterValidation(
             firstThrown(<<validatePhotoReference(p.photoReference),
                           validateNumber(withDefault(p.maxWidth))>>),
             Outcome(307, "redirect", "", 0, ""))

\* the try block of the handler and its catch
dispatch(q, up) ==
    LET out == IF validateAction(q.action) # ""
               THEN Outcome(0, "", validateAction(q.action), 0, "")
               ELSE CASE q.action = "details" -> handlePlaceDetails(q.p, up)
                      [] q.action = "search" -> handleSearch(q.p, up)
                      [] q.action = "nearby" -> handleNearby(q.p, up)
                      [] q.action = "photo" -> handlePhoto(q.p, up)
    IN  IF out.status # 0 THEN out
        ELSE IF includesInvalid(out.thrown)
        THEN [out EXCEPT !.status = 400, !.body = out.thrown]
        ELSE [out EXCEPT !.status = 500,
                         !.body = "Failed to fetch from Google Places API"]

\* res.setHeader for the three rate-limit headers
addNoRateLimitHeaders(headers, limitResult) == headers
addRateLimitHeaders(headers, limitResult) ==
    [h \in DOMAIN headers \cup
            {"X-RateLimit-Limit", "X-RateLimit-Remaining", "X-RateLimit-Reset"} |->
        CASE h = "X-RateLimit-Limit" -> limitResult.limit
          [] h = "X-RateLimit-Remaining" -> limitResult.remaining
          [] h = "X-RateLimit-Reset" -> limitResult.resetTime
          [] OTHER -> headers[h]]

\* the CORS headers set first
corsHeaders(isAllowedOrigin) ==
    [h \in (IF isAllowedOrigin THEN {"Access-Control-Allow-Origin"} ELSE {})
           \cup {"Access-Control-Allow-Headers", "Access-Control-Allow-Methods"} |->
        CASE h = "Access-Control-Allow-Origin" -> "origin"
          [] h = "Access-Control-Allow-Headers" -> "Content-Type"
          [] OTHER -> "GET, OPTIONS"]

NoResponse ==
    [ status |-> 0, body |-> "", headers |-> EmptyMap, limited |-> FALSE,
      limitResult |-> <<>>, fetches |-> 0, thrown |-> "" ]

\* handler(req, res): the Map afterwards and the response sent
handler(st, req, method, isAllowedOrigin, q, up, key, now) ==
    LET cors == corsHeaders(isAllowedOrigin)
        lim == rateLimitMiddleware(st, req, now)
        limited == addRateLimitHeaders(cors, lim.result)
        sent(status, body, headers, fetches, thrown) ==
            [ store |-> lim.store,
              res |-> [ status |-> status, body |-> body, headers |-> headers,
                        limited |-> TRUE, limitResult |-> lim.result,
                        fetches |-> fetches, thrown |-> thrown ] ]
        out == dispatch(q, up)
    IN  IF method = "OPTIONS"
        THEN [ store |-> st,
               res |-> [NoResponse EXCEPT !.status = 204, !.headers = cors] ]
        ELSE IF ~lim.result.allowed
        THEN sent(429, "Too many requests", limited, 0, "")
        ELSE IF ~key
        THEN sent(500, "Google Places API key not configured", limited, 0, "")
        ELSE sent(out.status, out.body,
                  IF out.cacheControl = "" THEN limited
                  ELSE Put(limited, "Cache-Control", out.cacheControl),
                  out.fetches, out.thrown)

-----------------------------------------------------------------------------
(* Events aggregator (api/events-lite): events and the functions on them *)

\* Times are in ms, counted from the moment the instance was loaded (an hour
\* boundary of the UTC day); a startTime / endTime is an ISO string, or NoTime
\* for null. Coordinates are in units of 0.01 degree.
Hour == 60 * 60 * 1000
NoTime == <<>>

Abs(x) == IF x < 0 THEN 0 - x ELSE x
Min(a, b) == IF a <= b THEN a ELSE b

\* HotspotEvent: what an adapter pushes (isLiveNow: false, score: 0)
HotspotEvent(id, source, title, description, startTime, endTime, lat, lng, venueName, category, priceType, url, imageUrl) ==
    [ id |-> id, source |-> source, title |-> title, description |-> description,
      startTime |-> toISOString(startTime),
      endTime |-> IF endTime = NoTime THEN NoTime ELSE toISOString(endTime[1]),
      lat |-> lat, lng |-> lng, venueName |-> venueName, city |-> "Helsinki",
      category |-> category, priceType |-> priceType, url |-> url,
      imageUrl |-> imageUrl, isLiveNow |-> FALSE, score |-> 0 ]

\* String.prototype.toLowerCase, trim and replace(/[^\w\s]/g, '') on the
\* strings of the model
toLowerCase(s) ==
    CASE s = "Jazz Night" -> "jazz night"
      [] s = "Art Exhibition" -> "art exhibition"
      [] s = "Sauna Day" -> "sauna day"
      [] s = "Sauna Day " -> "sauna day "
      [] s = "Sauna Day !" -> "sauna day !"
      [] s = "SAUNA DAY!" -> "sauna day!"
      [] s = "Street Food" -> "street food"
      [] s = "Flea Market" -> "flea market"
      [] s = "Tavastia" -> "tavastia"
      [] s = "Ateneum" -> "ateneum"
      [] s = "Allas Pool" -> "allas pool"
      [] s = "Kauppatori" -> "kauppatori"
      [] s = "Live jazz" -> "live jazz"
      [] s = "Sauna and swimming" -> "sauna and swimming"
      [] s = "Startup Pitch" -> "startup pitch"
      [] s = "Coding Meetup" -> "coding meetup"
      [] s = "Maria 01" -> "maria 01"
      [] s = "Oodi" -> "oodi"
      [] OTHER -> s

trim(s) == IF s = "sauna day " THEN "sauna day" ELSE s

stripPunctuation(s) ==
    CASE s = "sauna day!" -> "sauna day"
      [] s = "sauna day !" -> "sauna day "
      [] OTHER -> s

\* String.prototype.includes for the search text of the model
includes(s, q) == q = "jazz" /\ s \in {"jazz night", "live jazz"}

\* lines 53-65
isLiveNow(event, now) ==
    LET start == parseISO(event.startTime) IN
    IF event.endTime # NoTime
    THEN now >= start /\ now <= parseISO(event.endTime)
    ELSE now >= start /\ now <= start + 2 * 60 * 60 * 1000

\* the client's isLiveNow (App.tsx), on the same two fields; NoTime is a
\* missing or unparsable start
isLiveNowClient(e, now) ==
    IF e.startTime = NoTime THEN FALSE
    ELSE LET s == parseISO(e.startTime)
             en == IF e.endTime # NoTime THEN parseISO(e.endTime)
                   ELSE s + 6 * 60 * 60 * 1000
         IN  IF s > now \/ now > en THEN FALSE
             ELSE IF en - s > 12 * (1000 * 60 * 60) THEN FALSE
             ELSE TRUE

\* Math.cos of a latitude, in thousandths: the cosine of the middle of its
\* band of ten degrees
cosPermille(lat) ==
    LET band == Abs(lat) \div 1000 IN
    CASE band = 0 -> 996 [] band = 1 -> 966 [] band = 2 -> 906 [] band = 3 -> 819
      [] band = 4 -> 707 [] band = 5 -> 574 [] band = 6 -> 423 [] band = 7 -> 259
      [] OTHER -> 87

\* Math.sqrt(a * a + b * b), rounded down
hypot(a, b) ==
    CHOOSE r \in Max(a, b)..(a + b) :
        r * r <= a * a + b * b /\ (r + 1) * (r + 1) > a * a + b * b

\* lines 70-80: the great-circle distance in whole km. One unit of latitude is
\* 6371 km * PI / 180 / 100 = 1.112 km; along a parallel the unit shrinks by
\* the cosine of the latitude.
calculateDistance(lat1, lng1, lat2, lng2) ==
    LET dLat == Abs(lat2 - lat1)
        dLng == (Abs(lng2 - lng1) * cosPermille(lat1)) \div 1000
        arc == IF dLng = 0 THEN dLat
               ELSE IF dLat = 0 THEN dLng
               ELSE hypot(dLat, dLng)
    IN  (arc * 1112) \div 1000

\* line 91: -10 points per km
distanceBonus(distance) == 0 - distance * 10
distancePenalty(distance) == distance * 10

\* lines 85-127
scoreEvent(event, userLat, userLng, now) ==
    LET byDistance == IF userLat # 0 /\ userLng # 0
                      THEN distancePenalty(calculateDistance(userLat, userLng,
                                                             event.lat, event.lng))
                      ELSE 0
        live == IF event.isLiveNow THEN 500 ELSE 0
        untilStart == parseISO(event.startTime) - now
        soon == IF untilStart > 0 /\ untilStart <= 2 * Hour THEN 200
                ELSE IF untilStart > 2 * Hour /\ untilStart <= 6 * Hour THEN 100
                ELSE IF untilStart > 6 * Hour /\ untilStart <= 24 * Hour THEN 50
                ELSE 0
        free == IF event.priceType = "free" THEN 50 ELSE 0
        image == IF event.imageUrl # "" THEN 25 ELSE 0
        link == IF event.url # "" THEN 10 ELSE 0
    IN  Max(0, 1000 - byDistance + live + soon + free + image + link)

\* lines 137-139: the key of an event in the Map of dedupeEvents
dedupeKey(event) ==
    << stripPunctuation(trim(toLowerCase(event.title))),
       toLowerCase(event.venueName),
       parseISO(event.startTime) \div Hour >>

\* lines 146-155
quality(event) ==
    (IF event.url # "" THEN 10 ELSE 0) + (IF event.imageUrl # "" THEN 20 ELSE 0)
    + (IF event.description # "" THEN 5 ELSE 0)
    + (IF event.endTime # NoTime THEN 5 ELSE 0)

\* line 157
replacesOnTie(newQuality, existingQuality) == newQuality >= existingQuality
replaces(newQuality, existingQuality) == newQuality > existingQuality

\* line 163: the values of the Map, in the order their keys were inserted
valuesReversed(seen) == [i \in 1..Len(seen) |-> seen[Len(seen) + 1 - i]]
values(seen) == seen

\* lines 135-161: the loop, seen being the Map's values in insertion order
RECURSIVE dedupeLoop(_, _)
dedupeLoop(seen, events) ==
    IF events = <<>> THEN seen
    ELSE LET event == Head(events)
             at == {i \in 1..Len(seen) : dedupeKey(seen[i]) = dedupeKey(event)}
         IN  IF at = {} THEN dedupeLoop(Append(seen, event), Tail(events))
             ELSE LET i == CHOOSE i \in at : TRUE IN
                  IF replaces(quality(event), quality(seen[i]))
                  THEN dedupeLoop([seen EXCEPT ![i] = event], Tail(events))
                  ELSE dedupeLoop(seen, Tail(events))

\* lines 132-164
dedupeEvents(events) == values(dedupeLoop(<<>>, events))

-----------------------------------------------------------------------------
(* Events aggregator (api/events-lite): the handler and its cache hierarchy *)

KV_TTL_SEC == 300
TTL_MS == 90000

\* the clock of the events specifications advances in steps of 45 s
TickMs == TTL_MS \div 2

\* the adapters the module defines, and the ones the handler's Promise.all invokes
Adapters ==
    {"fetchLinkedEvents", "fetchMyHelsinkiEvents", "fetchEventbriteEvents", "fetchMeetupEvents"}
InvokedAdapters == {"fetchLinkedEvents", "fetchMyHelsinkiEvents"}

\* What the upstream of an adapter holds, as the adapter normalizes it. The
\* jazz night ends a minute after the instance was loaded, the exhibition
\* lasts 26 hours, MyHelsinki knows the sauna day with more detail, and its
\* last two events differ in their title only.
Feed(a) ==
    CASE a = "fetchLinkedEvents" ->
           << HotspotEvent("linkedevents_1", "linkedevents", "Jazz Night", "Live jazz",
                           0 - Hour, <<60000>>, 6018, 2494, "Tavastia", "music", "free",
                           "https://tavastia.fi", ""),
              HotspotEvent("linkedevents_2", "linkedevents", "Art Exhibition", "",
                           0 - 13 * Hour, <<13 * Hour>>, 6017, 2494, "Ateneum", "arts",
                           "paid", "https://ateneum.fi", "https://ateneum.fi/a.jpg"),
              HotspotEvent("linkedevents_3", "linkedevents", "Sauna Day", "",
                           Hour + 600000, NoTime, 6027, 2494, "Allas Pool", "other",
                           "free", "", "") >>
      [] a = "fetchMyHelsinkiEvents" ->
           << HotspotEvent("myhelsinki_1", "myhelsinki", "SAUNA DAY!", "",
                           Hour, NoTime, 6027, 2494, "allas pool", "other", "free",
                           "https://allas.fi", "https://allas.fi/s.jpg"),
              HotspotEvent("myhelsinki_2", "myhelsinki", "Street Food", "",
                           Hour, NoTime, 6018, 2494, "Kauppatori", "food", "paid", "", ""),
              HotspotEvent("myhelsinki_3", "myhelsinki", "Flea Market", "",
                           Hour, NoTime, 6018, 2494, "Kauppatori", "other", "paid", "", "") >>
      [] a = "fetchEventbriteEvents" ->
           << HotspotEvent("eventbrite_1", "eventbrite", "Startup Pitch", "",
                           2 * Hour, <<3 * Hour>>, 6017, 2494, "Maria 01", "tech", "paid",
                           "https://eventbrite.com/e/1", "") >>
      [] OTHER ->
           << HotspotEvent("meetup_1", "meetup", "Coding Meetup", "",
                           2 * Hour, NoTime, 6017, 2494, "Oodi", "tech", "free",
                           "https://meetup.com/e/1", "") >>

\* lines 237-241 and 341-345: an adapter skips the events outside the bounds
withinBounds(events, bounds) ==
    IF bounds = <<>> THEN events
    ELSE SelectSeq(events, LAMBDA e :
             ~( e.lng < bounds[1] \/ e.lng > bounds[3]
                \/ e.lat < bounds[2] \/ e.lat > bounds[4] ))

\* A request's query string. A parameter that is read with searchParams.get
\* is <<>> when get returns null or '' and <<v>> otherwise; bbox holds the
\* numbers of its comma-separated list.
DefaultQuery ==
    [ lat |-> <<>>, lng |-> <<>>, radiusKm |-> <<>>, limit |-> <<>>, q |-> "",
      category |-> "", freeOnly |-> FALSE, liveOnly |-> FALSE, bbox |-> <<>> ]

DefaultLat == 6017
DefaultLng == 2494

\* the query strings of the model
EventQueries ==
    { DefaultQuery,
      [DefaultQuery EXCEPT !.radiusKm = <<50>>],
      [DefaultQuery EXCEPT !.radiusKm = <<9999>>],
      [DefaultQuery EXCEPT !.bbox = <<2490, 6016, 2500, 6020>>],
      [DefaultQuery EXCEPT !.bbox = <<2490, 6016, 2500>>],
      [DefaultQuery EXCEPT !.radiusKm = <<50>>, !.liveOnly = TRUE],
      [DefaultQuery EXCEPT !.radiusKm = <<50>>, !.lat = <<6027>>, !.lng = <<2500>>],
      [DefaultQuery EXCEPT !.radiusKm = <<50>>, !.limit = <<2>>],
      [DefaultQuery EXCEPT !.radiusKm = <<50>>, !.limit = <<0 - 5>>],
      [DefaultQuery EXCEPT !.radiusKm = <<50>>, !.limit = <<0>>],
      [DefaultQuery EXCEPT !.radiusKm = <<50>>, !.limit = <<5000>>],
      [DefaultQuery EXCEPT !.radiusKm = <<50>>, !.q = "jazz", !.category = "music",
                           !.freeOnly = TRUE] }

\* searchParams.get(name) || fallback, parsed
param(p, fallback) == IF p = <<>> THEN fallback ELSE p[1]

\* lines 574-587
parseQuery(query) ==
    [ lat |-> param(query.lat, DefaultLat),
      lng |-> param(query.lng, DefaultLng),
      radiusKm |-> Max(1, Min(50, param(query.radiusKm, 5))),
      limit |-> Max(1, Min(1000, IF param(query.limit, 0) # 0
                                 THEN param(query.limit, 0) ELSE 200)),
      q |-> toLowerCase(query.q),
      category |-> query.category,
      freeOnly |-> query.freeOnly,
      liveOnly |-> query.liveOnly,
      bounds |-> query.bbox,
      hasBBox |-> query.bbox # <<>> /\ Len(query.bbox) = 4 ]

\* line 686: the comparator of the sort
compareAscending(a, b) == a.score - b.score
compareScore(a, b) == b.score - a.score

\* Array.prototype.sort is stable: an element goes behind the ones that the
\* comparator does not put after it
RECURSIVE sortLoop(_, _)
sortLoop(sorted, rest) ==
    IF rest = <<>> THEN sorted
    ELSE LET e == Head(rest)
             keep == {i \in 1..Len(sorted) : compareScore(sorted[i], e) <= 0}
             k == IF keep = {} THEN 0
                  ELSE CHOOSE i \in keep : \A j \in keep : j <= i
         IN  sortLoop(SubSeq(sorted, 1, k) \o <<e>> \o SubSeq(sorted, k + 1, Len(sorted)),
                      Tail(rest))

sort(events) == sortLoop(<<>>, events)

\* line 686: slice(0, limit)
sliceOneMore(events, limit) == SubSeq(events, 1, Min(Len(events), limit + 1))
slice(events, limit) == SubSeq(events, 1, Min(Len(events), limit))

\* lines 655-683: the filters; each one that applies makes a new array
filter(p, data) ==
    LET byText == IF p.q # ""
                  THEN SelectSeq(data, LAMBDA e :
                           \/ includes(toLowerCase(e.title), p.q)
                           \/ includes(toLowerCase(e.description), p.q)
                           \/ includes(toLowerCase(e.venueName), p.q))
                  ELSE data
        byCategory == IF p.category # ""
                      THEN SelectSeq(byText, LAMBDA e : e.category = p.category)
                      ELSE byText
        byPrice == IF p.freeOnly
                   THEN SelectSeq(byCategory, LAMBDA e : e.priceType = "free")
                   ELSE byCategory
        byLive == IF p.liveOnly
                  THEN SelectSeq(byPrice, LAMBDA e : e.isLiveNow)
                  ELSE byPrice
    IN  IF ~p.hasBBox /\ p.radiusKm < 50
        THEN SelectSeq(byLive, LAMBDA e :
                 calculateDistance(p.lat, p.lng, e.lat, e.lng) <= p.radiusKm)
        ELSE byLive

\* out is still payload.data when no filter applied: the sort is then done
\* on the array of the payload itself
sortsInPlace(p) ==
    ~(p.q # "" \/ p.category # "" \/ p.freeOnly \/ p.liveOnly
      \/ (~p.hasBBox /\ p.radiusKm < 50))

Null == [updatedAt |-> <<>>, count |-> -1, data |-> <<>>]
NoEntry == [payload |-> Null, expiresAt |-> 0]
NoCalls == [a \in Adapters |-> 0]

\* lines 654-693: the body of the 200 response to a request, and what the
\* payload object is afterwards
respondWith(query, payload) ==
    LET p == parseQuery(query)
        out == slice(sort(filter(p, payload.data)), p.limit)
    IN  [ body |-> [updatedAt |-> payload.updatedAt, count |-> Len(out), data |-> out],
          payload |-> IF sortsInPlace(p)
                      THEN [payload EXCEPT !.data = sort(payload.data)]
                      ELSE payload ]

\* the handler invocations of one instance; those of Sequential run one at a time
Slots == {1, 2}
Sequential == {1}
Idle ==
    [ pc |-> "idle", now |-> 0, query |-> DefaultQuery, nth |-> 0, kvReads |-> 0,
      kvThrew |-> FALSE, invoked |-> NoCalls ]
NoResp ==
    [ status |-> 0, tier |-> -1, now |-> 0, query |-> DefaultQuery, nth |-> 0,
      payload |-> Null, body |-> Null, kvReads |-> 0, kvThrew |-> FALSE,
      kvWrites |-> 0, setThrew |-> FALSE, invoked |-> NoCalls ]

\* lines 597-603: kv.get is called inside a try whose catch is empty
noCatch == FALSE
catchesKvGet == TRUE

\* what the try leaves in kvPayload
kvGet(outcome, entry) ==
    IF outcome = "throws" THEN Null ELSE entry.payload

\* lines 615-618: the adapters invoked by one aggregation
invoke(calls) ==
    [a \in Adapters |-> IF a \in InvokedAdapters THEN calls[a] + 1 ELSE calls[a]]

\* An item that the upstream of adapter a lists without a usable start: a
\* start_time that is missing or no date string in LinkedEvents (line 254), a
\* starting_day that is no date in MyHelsinki (line 362). new Date(startTime)
\* is then an Invalid Date.
Undated(a) ==
    [ HotspotEvent(IF a = "fetchLinkedEvents" THEN "linkedevents_0" ELSE "myhelsinki_0",
                   IF a = "fetchLinkedEvents" THEN "linkedevents" ELSE "myhelsinki",
                   "Flea Market", "", 0, NoTime, 6018, 2494, "Kauppatori", "other", "paid", "", "")
      EXCEPT !.startTime = NoTime ]

\* lines 171-274 and 279-382: what adapter a returns. It returns [] when its
\* upstream fails (response.ok false, a timeout or another rejection of fetch,
\* a body that is no JSON: lines 181 and 270-273), and otherwise its events
\* within the bounds
fetchEvents(a, ok, bad, bounds) ==
    IF a \notin ok THEN <<>>
    ELSE withinBounds(Feed(a) \o (IF a \in bad THEN <<Undated(a)>> ELSE <<>>), bounds)

\* lines 613-623: [...linkedEvents, ...myHelsinkiEvents]
merge(ok, bad, p) ==
    LET fetchBounds == IF p.hasBBox THEN p.bounds ELSE <<>> IN
    fetchEvents("fetchLinkedEvents", ok, bad, fetchBounds)
        \o fetchEvents("fetchMyHelsinkiEvents", ok, bad, fetchBounds)

\* line 138: new Date(event.startTime).toISOString() throws a RangeError on an
\* Invalid Date, for whichever event of the list
throwsRangeError(events) == \E i \in DOMAIN events : events[i].startTime = NoTime

\* lines 613-639: the adapters of ok answer; merge in invocation order,
\* deduplicate, stamp isLiveNow (with Date.now(), which is at) and score (with
\* the handler's now), and build the payload
buildPayload(ok, query, now, at) ==
    LET p == parseQuery(query)
        fetchBounds == IF p.hasBBox THEN p.bounds ELSE <<>>
        linkedEvents == IF "fetchLinkedEvents" \in ok
                        THEN withinBounds(Feed("fetchLinkedEvents"), fetchBounds)
                        ELSE <<>>
        myHelsinkiEvents == IF "fetchMyHelsinkiEvents" \in ok
                            THEN withinBounds(Feed("fetchMyHelsinkiEvents"), fetchBounds)
                            ELSE <<>>
        allEvents == dedupeEvents(linkedEvents \o myHelsinkiEvents)
        stamped == [i \in 1..Len(allEvents) |->
                       LET live == [allEvents[i] EXCEPT !.isLiveNow = isLiveNow(allEvents[i], at)]
                       IN  [live EXCEPT !.score = scoreEvent(live, p.lat, p.lng, now)]]
    IN  [updatedAt |-> toISOString(at), count |-> Len(stamped), data |-> stamped]

\* line 646, { ex: KV_TTL_SEC }: when an entry stored at time now expires
kvExpiry(now) == now + KV_TTL_SEC * 1000

\* lines 605-608 and 641: the value assigned to CACHE
refillAtUpdate(now, payload) == [at |-> parseISO(payload.updatedAt), json |-> payload]
refillAtWrite(now, payload) == [at |-> clock, json |-> payload]
refill(now, payload) == [at |-> now, json |-> payload]

\* line 571, with the bound included
isFreshInclusive(cache, now) == cache.json # Null /\ now - cache.at <= TTL_MS
\* line 571
isFresh(cache, now) == cache.json # Null /\ now - cache.at < TTL_MS

\* lines 654-693 (and 697 for a throw that reaches the outer catch)
respond(h, tier, payload, kvWrites, setThrew) ==
    [ status |-> 200, tier |-> tier, now |-> h.now, query |-> h.query, nth |-> h.nth,
      payload |-> payload, body |-> respondWith(h.query, payload).body,
      kvReads |-> h.kvReads, kvThrew |-> h.kvThrew, kvWrites |-> kvWrites,
      setThrew |-> setThrew, invoked |-> h.invoked ]

\* lines 694-699: the outer catch
respondError(h) ==
    [ status |-> 500, tier |-> -1, now |-> h.now, query |-> h.query, nth |-> h.nth,
      payload |-> Null, body |-> Null, kvReads |-> h.kvReads, kvThrew |-> h.kvThrew,
      kvWrites |-> 0, setThrew |-> FALSE, invoked |-> h.invoked ]

\* handler, lines 566-568: an OPTIONS request is answered at once
Preflight(h) ==
    /\ handlers[h] = Idle
    /\ resp' = [NoResp EXCEPT !.status = 204, !.now = clock]
    /\ UNCHANGED <<clock, CACHE, fromKv, kvStore, kvUrl, upstreams, undated, pending, handlers,
                   received, replaced, limiterVars, placesVars, pureVars, likeVars>>

\* handler, lines 570-593 and 654-693 (or on to 618 when KV is not
\* configured): the handler runs without awaiting on a tier-1 hit
Start(h, query) ==
    LET me == [Idle EXCEPT !.now = clock, !.query = query, !.nth = received + 1] IN
    /\ handlers[h] = Idle
    /\ received' = Min(received + 1, MaxReceived)
    /\ IF isFresh(CACHE, clock)
       THEN /\ resp' = respond(me, 1, CACHE.json, 0, FALSE)
            /\ CACHE' = [CACHE EXCEPT !.json = respondWith(query, CACHE.json).payload]
            /\ UNCHANGED handlers
       ELSE /\ handlers' = [handlers EXCEPT ![h] =
                   IF kvUrl THEN [me EXCEPT !.pc = "kvGet", !.kvReads = 1]
                   ELSE [me EXCEPT !.pc = "fetch", !.invoked = invoke(@)]]
            /\ resp' = NoResp
            /\ UNCHANGED CACHE
    /\ UNCHANGED <<clock, fromKv, kvStore, kvUrl, upstreams, undated, pending, replaced,
                   limiterVars, placesVars, pureVars, likeVars>>

\* handler, lines 599-618 and 654-693: kv.get settles
KvGetSettles(h, outcome) ==
    LET me == [handlers[h] EXCEPT !.kvThrew = (outcome = "throws")]
        kvPayload == kvGet(outcome, kvStore)
    IN  /\ handlers[h].pc = "kvGet"
        /\ IF outcome = "throws" /\ ~catchesKvGet
           THEN /\ resp' = respondError(me)
                /\ handlers' = [handlers EXCEPT ![h] = Idle]
                /\ UNCHANGED <<CACHE, fromKv, replaced>>
           ELSE IF kvPayload # Null /\ kvPayload.updatedAt # <<>>
           THEN /\ CACHE' = refill(me.now, respondWith(me.query, kvPayload).payload)
                /\ fromKv' = TRUE
                /\ replaced' = CACHE.at
                /\ resp' = respond(me, 2, kvPayload, 0, FALSE)
                /\ handlers' = [handlers EXCEPT ![h] = Idle]
           ELSE /\ handlers' = [handlers EXCEPT ![h] =
                       [me EXCEPT !.pc = "fetch", !.invoked = invoke(@)]]
                /\ resp' = NoResp
                /\ UNCHANGED <<CACHE, fromKv, replaced>>
        /\ UNCHANGED <<clock, kvStore, kvUrl, upstreams, undated, pending, received, limiterVars,
                       placesVars, pureVars, likeVars>>

\* handler, lines 615-693 (and 694-699): the adapters settle, ok being those
\* whose upstream answered and bad those among them that list an undated item;
\* setThrows: kv.set throws instead of returning a promise. kv.set serializes
\* the payload when it is called, before the sort. When dedupeEvents throws,
\* the outer catch answers; otherwise no undated item was fetched and the
\* payload is built from the feeds.
AdaptersSettle(h, ok, bad, setThrows) ==
    LET me == handlers[h]
        threw == throwsRangeError(merge(ok, bad, parseQuery(me.query)))
        payload == buildPayload(ok, me.query, me.now, clock)
        issued == kvUrl /\ ~setThrows
    IN  /\ me.pc = "fetch"
        /\ IF threw
           THEN /\ resp' = respondError(me)
                /\ UNCHANGED <<CACHE, fromKv, pending, replaced>>
           ELSE /\ issued => Cardinality(pending) < MaxPending
                /\ CACHE' = refill(me.now, respondWith(me.query, payload).payload)
                /\ fromKv' = FALSE
                /\ replaced' = CACHE.at
                /\ pending' = IF issued THEN pending \cup {payload} ELSE pending
                /\ resp' = respond(me, 0, payload, IF kvUrl THEN 1 ELSE 0, kvUrl /\ setThrows)
        /\ handlers' = [handlers EXCEPT ![h] = Idle]
        /\ UNCHANGED <<clock, kvStore, kvUrl, upstreams, undated, received, limiterVars,
                       placesVars, pureVars, likeVars>>

\* the KV service stores a pending kv.set with its ex: KV_TTL_SEC
KvSetLands(p) ==
    /\ p \in pending
    /\ pending' = pending \ {p}
    /\ kvStore' = [payload |-> p, expiresAt |-> kvExpiry(clock)]
    /\ resp' = NoResp
    /\ UNCHANGED <<clock, CACHE, fromKv, kvUrl, upstreams, undated, handlers, received,
                   replaced, limiterVars, placesVars, pureVars, likeVars>>

\* a pending kv.set rejects; its .catch(() => {}) swallows the rejection
KvSetRejects(p) ==
    /\ p \in pending
    /\ pending' = pending \ {p}
    /\ resp' = NoResp
    /\ UNCHANGED <<clock, CACHE, fromKv, kvStore, kvUrl, upstreams, undated, handlers,
                   received, replaced, limiterVars, placesVars, pureVars, likeVars>>

\* time passes up to the tick numbered final (a kv.set settles in less than a
\* tick, and so do the adapters, whose fetches are aborted after 10 s); the KV
\* service drops the entry when its TTL is over
Tick(final) ==
    /\ clock < final * TickMs
    /\ pending = {}
    /\ \A h \in Slots : handlers[h].pc # "fetch"
    /\ clock' = clock + TickMs
    /\ kvStore' = IF kvStore # NoEntry /\ clock + TickMs >= kvStore.expiresAt
                  THEN NoEntry ELSE kvStore
    /\ resp' = NoResp
    /\ UNCHANGED <<CACHE, fromKv, kvUrl, upstreams, undated, pending, handlers, received,
                   replaced, limiterVars, placesVars, pureVars, likeVars>>

CacheTick == Tick(MaxTicks)

\* the cache hierarchy under requests that carry no parameter
CacheNext ==
    \/ CacheTick
    \/ \E h \in Sequential : Preflight(h)
    \/ \E h \in Sequential : Start(h, DefaultQuery)
    \/ \E h \in Sequential, outcome \in {"returns", "throws"} : KvGetSettles(h, outcome)
    \/ \E h \in Sequential, setThrows \in BOOLEAN : AdaptersSettle(h, upstreams, undated, setThrows)
    \/ \E p \in pending : KvSetLands(p)
    \/ \E p \in pending : KvSetRejects(p)

EventsTick == Tick(MaxEventsTicks)

\* the endpoint under the query strings of the model
EventsNext ==
    \/ EventsTick
    \/ \E h \in Sequential : Preflight(h)
    \/ \E h \in Sequential, query \in EventQueries : Start(h, query)
    \/ \E h \in Sequential, outcome \in {"returns", "throws"} : KvGetSettles(h, outcome)
    \/ \E h \in Sequential, setThrows \in BOOLEAN : AdaptersSettle(h, upstreams, undated, setThrows)
    \/ \E p \in pending : KvSetLands(p)
    \/ \E p \in pending : KvSetRejects(p)

NoArg == [fn |-> "none"]

NoCall ==
    [id |-> "", swept |-> FALSE, result |-> <<>>, soloResult |-> <<>>, plainResult |-> <<>>]

LimiterInit ==
    /\ clock = 0
    /\ store = EmptyMap
    /\ last = EmptyMap
    /\ call = NoCall
    /\ recent = [i \in Identifiers |-> <<>>]
    /\ solo = [i \in Identifiers |-> EmptyMap]
    /\ plain = EmptyMap

\* the module-level state of the events aggregator after loading
CacheInit ==
    /\ CACHE = [at |-> 0, json |-> Null]
    /\ fromKv = FALSE
    /\ kvStore = NoEntry
    /\ pending = {}
    /\ handlers = [h \in Slots |-> Idle]
    /\ received = 0
    /\ resp = NoResp
    /\ undated = {}
    /\ replaced = 0 - 1

\* no function application is modelled, and localStorage is empty
NoFunction ==
    /\ arg = NoArg
    /\ result = NoArg
    /\ likedEvents = <<>>
    /\ categoryPrefs = <<>>

\* the limiter alone: a configured deployment, no traffic on the endpoints
Init ==
    /\ LimiterInit
    /\ CacheInit
    /\ NoFunction
    /\ apiKey = TRUE
    /\ res = NoResponse
    /\ kvUrl = TRUE
    /\ upstreams = InvokedAdapters

\* the places proxy, with or without its API key
PlacesInit ==
    /\ LimiterInit
    /\ CacheInit
    /\ NoFunction
    /\ apiKey \in BOOLEAN
    /\ res = NoResponse
    /\ kvUrl = TRUE
    /\ upstreams = InvokedAdapters

\* the events aggregator, with or without KV, whichever upstreams answer
EventsInit ==
    /\ LimiterInit
    /\ CacheInit
    /\ NoFunction
    /\ apiKey = TRUE
    /\ res = NoResponse
    /\ kvUrl \in BOOLEAN
    /\ upstreams \in SUBSET InvokedAdapters

RECURSIVE DropOld(_, _)
DropOld(s, from) ==
    IF s = <<>> THEN s
    ELSE IF s[1] < from THEN DropOld(Tail(s), from) ELSE s

\* time passes
LimiterTick ==
    /\ clock < MaxTime
    /\ clock' = clock + 1
    /\ recent' = [i \in Identifiers |-> DropOld(recent[i], clock + 1 - windowMs)]
    /\ UNCHANGED <<store, last, call, solo, plain, placesVars, cacheVars, pureVars, likeVars>>

\* one call of the middleware
RateLimit(req) ==
    LET id == getClientIdentifier(req)
        out == rateLimitMiddleware(store, req, clock)
        outSolo == rateLimitMiddleware(solo[id], req, clock)
        outPlain == rateLimitMiddleware(plain, req, clock)
    IN  /\ out.data.count <= maxRequests + MaxOver
        /\ store' = out.store
        /\ last' = Put(last, id, [ count |-> out.data.count,
                                   windowStart |-> out.data.resetTime,
                                   result |-> out.result ])
        /\ call' = [ id |-> id, swept |-> id \in DOMAIN plain /\ id \notin DOMAIN store,
                     result |-> out.result,
                     soloResult |-> outSolo.result, plainResult |-> outPlain.result ]
        /\ recent' = IF out.result.allowed
                     THEN [recent EXCEPT ![id] = Append(@, clock)]
                     ELSE recent
        /\ solo' = [solo EXCEPT ![id] = outSolo.store]
        /\ plain' = outPlain.store
        /\ UNCHANGED <<clock, placesVars, cacheVars, pureVars, likeVars>>

\* the periodic sweep
Sweep ==
    /\ store' = sweep(store, clock)
    /\ solo' = [i \in Identifiers |-> sweep(solo[i], clock)]
    /\ UNCHANGED <<clock, last, call, recent, plain, placesVars, cacheVars, pureVars, likeVars>>

LimiterNext ==
    \/ LimiterTick
    \/ \E req \in Requests : RateLimit(req)
    \/ Sweep

SpecLimiter == Init /\ [][LimiterNext]_vars

\* the upstream outcomes that matter to a query: one when it never fetches
UpstreamsFor(q) == IF dispatch(q, "OK").fetches = 0 THEN {"OK"} ELSE Upstreams

\* one request to the places proxy
PlacesRequest(req, method, isAllowedOrigin, q, up) ==
    LET out == handler(store, req, method, isAllowedOrigin, q, up, apiKey, clock)
        count == IF out.res.limited THEN out.store[getClientIdentifier(req)].count ELSE 0
    IN  /\ count <= maxRequests + MaxOver
        /\ store' = out.store
        /\ res' = out.res
        /\ UNCHANGED <<clock, apiKey, last, call, recent, solo, plain, cacheVars, pureVars, likeVars>>

PlacesTick ==
    /\ clock < PlacesMaxTime
    /\ clock' = clock + 1
    /\ UNCHANGED <<limiterVars, placesVars, cacheVars, pureVars, likeVars>>

PlacesSweep ==
    /\ store' = sweep(store, clock)
    /\ UNCHANGED <<clock, last, call, recent, solo, plain, placesVars, cacheVars, pureVars, likeVars>>

\* the requests of the places specification come from one client address
PlacesClients == {r \in Requests : r.realIp = "a" /\ r.forwarded = <<>> /\ r.remote = ""}

PlacesNext ==
    \/ PlacesTick
    \/ PlacesSweep
    \/ \E req \in PlacesClients, isAllowedOrigin \in BOOLEAN :
          PlacesRequest(req, "OPTIONS", isAllowedOrigin, [action |-> "other", p |-> NoParams], "OK")
    \/ \E req \in PlacesClients, isAllowedOrigin \in BOOLEAN, q \in PlacesQueries :
          \E up \in UpstreamsFor(q) :
             PlacesRequest(req, "GET", isAllowedOrigin, q, up)

SpecPlaces == PlacesInit /\ [][PlacesNext]_vars

SpecCache == EventsInit /\ [][CacheNext]_vars

-----------------------------------------------------------------------------
(* The functions on events, applied to arguments drawn from bounded sets *)

\* events that dedupeEvents may or may not merge: the first four share their
\* key, the others differ from it in title, hour or venue
Candidate(id, title, venueName, startTime, endTime, description, url, imageUrl) ==
    HotspotEvent(id, "linkedevents", title, description, startTime, endTime, 6027, 2494,
                 venueName, "other", "free", url, imageUrl)

DedupeUniverse ==
    { Candidate("linkedevents_3", "Sauna Day", "Allas Pool", Hour + 600000, NoTime, "", "", ""),
      Candidate("myhelsinki_1", "SAUNA DAY!", "allas pool", Hour, NoTime, "",
                "https://allas.fi", "https://allas.fi/s.jpg"),
      Candidate("linkedevents_4", "Sauna Day ", "Allas Pool", Hour + 600000, NoTime, "",
                "https://allas.fi", ""),
      Candidate("linkedevents_5", "Sauna Day", "Allas Pool", Hour, <<3 * Hour>>,
                "Sauna and swimming", "", ""),
      Candidate("linkedevents_6", "Sauna Day !", "Allas Pool", Hour, NoTime, "",
                "https://allas.fi", "https://allas.fi/s.jpg"),
      Candidate("linkedevents_7", "Sauna Day", "Allas Pool", 2 * Hour, NoTime, "", "", ""),
      Candidate("linkedevents_8", "Sauna Day", "Ateneum", Hour, NoTime, "", "", "") }

Lists == UNION {[1..n -> DedupeUniverse] : n \in 0..MaxLen}

DedupeArgs == {[fn |-> "dedupeEvents", events |-> L] : L \in Lists}

\* events that differ in everything the score looks at, and the viewers
Scored(startTime, live, priceType, url, imageUrl, lat) ==
    [ HotspotEvent("linkedevents_9", "linkedevents", "Jazz Night", "", startTime, NoTime,
                   lat, 2494, "Tavastia", "music", priceType, url, imageUrl)
      EXCEPT !.isLiveNow = live ]

Latitudes == {6017, 6018, 6027, 0 - 9000}

Viewers ==
    { [lat |-> 6017, lng |-> 2494], [lat |-> 6027, lng |-> 2500],
      [lat |-> 0, lng |-> 2494], [lat |-> 0 - 3390, lng |-> 2494] }

ScoreArgs ==
    { [ fn |-> "scoreEvent",
        event |-> Scored(s, live, price, url, image, lat),
        other |-> Scored(s, live, price, url, image, far),
        userLat |-> v.lat, userLng |-> v.lng, now |-> 0 ] :
      s \in {0 - Hour, Hour, 3 * Hour, 12 * Hour, 30 * Hour}, live \in BOOLEAN,
      price \in {"free", "paid"}, url \in {"", "https://tavastia.fi"},
      image \in {"", "https://tavastia.fi/j.jpg"}, lat \in Latitudes, far \in Latitudes,
      v \in Viewers }

LiveArgs ==
    { [ fn |-> "isLiveNow",
        event |-> Scored(s, FALSE, "free", "", "", 6017),
        now |-> now ] :
      s \in {0 - Hour, Hour}, now \in {0, Hour, 4 * Hour} }
    \cup
    { [ fn |-> "isLiveNow",
        event |-> [Scored(s, FALSE, "free", "", "", 6017)
                       EXCEPT !.endTime = toISOString(s + span)],
        now |-> now ] :
      s \in {0 - Hour, Hour, 0 - 13 * Hour}, span \in {Hour \div 2, 12 * Hour, 26 * Hour},
      now \in {0, Hour, 4 * Hour} }

ApplyDedupe ==
    /\ arg.fn = "dedupeEvents"
    /\ result = NoArg
    /\ result' = [ fn |-> "dedupeEvents", once |-> dedupeEvents(arg.events),
                   twice |-> dedupeEvents(dedupeEvents(arg.events)) ]
    /\ UNCHANGED <<clock, arg, limiterVars, placesVars, cacheVars, likeVars>>

ApplyScore ==
    /\ arg.fn = "scoreEvent"
    /\ result = NoArg
    /\ result' = [ fn |-> "scoreEvent",
                   score |-> scoreEvent(arg.event, arg.userLat, arg.userLng, arg.now),
                   other |-> scoreEvent(arg.other, arg.userLat, arg.userLng, arg.now) ]
    /\ UNCHANGED <<clock, arg, limiterVars, placesVars, cacheVars, likeVars>>

ApplyIsLiveNow ==
    /\ arg.fn = "isLiveNow"
    /\ result = NoArg
    /\ result' = [ fn |-> "isLiveNow", server |-> isLiveNow(arg.event, arg.now),
                   client |-> isLiveNowClient(arg.event, arg.now) ]
    /\ UNCHANGED <<clock, arg, limiterVars, placesVars, cacheVars, likeVars>>

FunctionsInit ==
    /\ LimiterInit
    /\ CacheInit
    /\ apiKey = TRUE
    /\ res = NoResponse
    /\ kvUrl = TRUE
    /\ upstreams = InvokedAdapters
    /\ arg \in DedupeArgs \cup ScoreArgs \cup LiveArgs
    /\ result = NoArg
    /\ likedEvents = <<>>
    /\ categoryPrefs = <<>>

FunctionsNext ==
    \/ ApplyDedupe
    \/ ApplyScore
    \/ ApplyIsLiveNow

SpecFunctions == FunctionsInit /\ [][FunctionsNext]_vars

\* the events aggregator with KV configured and both upstreams answering
AggregatorInit ==
    /\ LimiterInit
    /\ CacheInit
    /\ NoFunction
    /\ apiKey = TRUE
    /\ res = NoResponse
    /\ kvUrl = TRUE
    /\ upstreams = InvokedAdapters

SpecEvents == AggregatorInit /\ [][EventsNext]_vars

\* the events aggregator, whichever upstreams answer and whichever of those
\* list an undated item
SourcesInit ==
    /\ LimiterInit
    /\ CACHE = [at |-> 0, json |-> Null]
    /\ fromKv = FALSE
    /\ kvStore = NoEntry
    /\ pending = {}
    /\ handlers = [h \in Slots |-> Idle]
    /\ received = 0
    /\ resp = NoResp
    /\ replaced = 0 - 1
    /\ NoFunction
    /\ apiKey = TRUE
    /\ res = NoResponse
    /\ kvUrl \in BOOLEAN
    /\ upstreams \in SUBSET InvokedAdapters
    /\ undated \in SUBSET upstreams

SpecSources == SourcesInit /\ [][CacheNext]_vars

\* the query strings of the requests that interleave
ConcurrentQueries ==
    { DefaultQuery, [DefaultQuery EXCEPT !.bbox = <<2490, 6016, 2500, 6020>>] }

ConcurrentTick == Tick(MaxConcurrentTicks)

\* handler invocations that interleave on one instance: each await of the
\* handler is a point where another invocation runs
ConcurrentNext ==
    \/ ConcurrentTick
    \/ \E h \in Slots : Preflight(h)
    \/ \E h \in Slots, query \in ConcurrentQueries : Start(h, query)
    \/ \E h \in Slots, outcome \in {"returns", "throws"} : KvGetSettles(h, outcome)
    \/ \E h \in Slots, setThrows \in BOOLEAN : AdaptersSettle(h, upstreams, undated, setThrows)
    \/ \E p \in pending : KvSetLands(p)
    \/ \E p \in pending : KvSetRejects(p)

SpecConcurrent == AggregatorInit /\ [][ConcurrentNext]_vars

-----------------------------------------------------------------------------
(* Personalization (src/utils/personalization): liked events and category
   preferences in localStorage. A stored value is modelled by the list that
   JSON.parse gives for it, an absent key by the empty list; localStorage is
   taken to accept every write. *)

\* the events the sidebar offers to like
LikeableEvents ==
    { [id |-> "linkedevents_1", title |-> "Jazz Night", category |-> "music"],
      [id |-> "eventbrite_1", title |-> "Startup Pitch", category |-> "tech"],
      [id |-> "linkedevents_9", title |-> "Jazz Brunch", category |-> "music"] }

\* lines 26-35 and 104-113: getLikedEvents / getCategoryPreferences
getLikedEvents(stored) == stored
getCategoryPreferences(stored) == stored

\* lines 40-43
isEventLiked(stored, eventId) ==
    \E i \in DOMAIN getLikedEvents(stored) : getLikedEvents(stored)[i].id = eventId

\* line 135: prefs.sort((a, b) => b.count - a.count), a stable sort
RECURSIVE sortPrefsLoop(_, _)
sortPrefsLoop(sorted, rest) ==
    IF rest = <<>> THEN sorted
    ELSE LET e == Head(rest)
             keep == {i \in 1..Len(sorted) : e.count - sorted[i].count <= 0}
             k == IF keep = {} THEN 0
                  ELSE CHOOSE i \in keep : \A j \in keep : j <= i
         IN  sortPrefsLoop(SubSeq(sorted, 1, k) \o <<e>> \o SubSeq(sorted, k + 1, Len(sorted)),
                           Tail(rest))

\* lines 118-141: the stored preferences afterwards
updateCategoryPreference(storedPrefs, category, now) ==
    LET prefs == getCategoryPreferences(storedPrefs)
        existing == {i \in DOMAIN prefs : prefs[i].category = category}
        updated == IF existing # {}
                   THEN [i \in DOMAIN prefs |->
                            IF i = (CHOOSE j \in existing : \A k \in existing : j <= k)
                            THEN [prefs[i] EXCEPT !.count = @ + 1, !.lastInteraction = now]
                            ELSE prefs[i]]
                   ELSE Append(prefs, [category |-> category, count |-> 1,
                                       lastInteraction |-> now])
    IN  sortPrefsLoop(<<>>, updated)

\* lines 48-72: both stored values afterwards
likeEvent(storedLiked, storedPrefs, event, now) ==
    LET liked == getLikedEvents(storedLiked) IN
    IF \E i \in DOMAIN liked : liked[i].id = event.id
    THEN [liked |-> storedLiked, prefs |-> storedPrefs]
    ELSE [ liked |-> << [id |-> event.id, title |-> event.title,
                         category |-> event.category, likedAt |-> now] >> \o liked,
           prefs |-> updateCategoryPreference(storedPrefs, event.category, now) ]

\* lines 77-85: both stored values afterwards
unlikeEvent(storedLiked, storedPrefs, eventId) ==
    [ liked |-> SelectSeq(getLikedEvents(storedLiked), LAMBDA e : e.id # eventId),
      prefs |-> storedPrefs ]

\* lines 90-99
toggleLikeEvent(storedLiked, storedPrefs, event, now) ==
    IF isEventLiked(storedLiked, event.id)
    THEN unlikeEvent(storedLiked, storedPrefs, event.id)
    ELSE likeEvent(storedLiked, storedPrefs, event, now)

\* the count stored for a category, 0 when it has no preference
countOf(storedPrefs, category) ==
    LET at == {i \in DOMAIN storedPrefs : storedPrefs[i].category = category} IN
    IF at = {} THEN 0 ELSE storedPrefs[CHOOSE i \in at : TRUE].count

LikeEvent(event) ==
    LET out == likeEvent(likedEvents, categoryPrefs, event, clock) IN
    /\ countOf(categoryPrefs, event.category) < MaxLikes
    /\ likedEvents' = out.liked
    /\ categoryPrefs' = out.prefs
    /\ UNCHANGED <<clock, limiterVars, placesVars, cacheVars, pureVars>>

UnlikeEvent(eventId) ==
    LET out == unlikeEvent(likedEvents, categoryPrefs, eventId) IN
    /\ likedEvents' = out.liked
    /\ categoryPrefs' = out.prefs
    /\ UNCHANGED <<clock, limiterVars, placesVars, cacheVars, pureVars>>

ToggleLikeEvent(event) ==
    LET out == toggleLikeEvent(likedEvents, categoryPrefs, event, clock) IN
    /\ countOf(categoryPrefs, event.category) < MaxLikes
    /\ likedEvents' = out.liked
    /\ categoryPrefs' = out.prefs
    /\ UNCHANGED <<clock, limiterVars, placesVars, cacheVars, pureVars>>

LikesTick ==
    /\ clock < MaxLikesTime
    /\ clock' = clock + 1
    /\ UNCHANGED <<limiterVars, placesVars, cacheVars, pureVars, likeVars>>

LikesNext ==
    \/ LikesTick
    \/ \E event \in LikeableEvents : LikeEvent(event)
    \/ \E event \in LikeableEvents : UnlikeEvent(event.id)
    \/ \E event \in LikeableEvents : ToggleLikeEvent(event)

SpecLikes == Init /\ [][LikesNext]_vars


-----------------------------------------------------------------------------
(* Claims about the rate limiter *)

\* the step is a call of the middleware by identifier id
Called(id) ==
    /\ id \in DOMAIN last'
    /\ id \notin DOMAIN last \/ last'[id] # last[id]

\* C5: the first maxRequests requests of a client inside one window are
\* allowed, every further one in the window is denied, and the first request
\* later than windowStart + windowMs is allowed and restarts the count at 1.
C5_WindowCounting ==
    [][\A id \in Identifiers : Called(id) =>
        LET new == last'[id] IN
        IF id \notin DOMAIN last \/ clock - last[id].windowStart > windowMs
        THEN /\ new.count = 1
             /\ new.windowStart = clock
             /\ new.result.allowed
             /\ new.result.remaining = maxRequests - 1
        ELSE /\ new.count = last[id].count + 1
             /\ new.windowStart = last[id].windowStart
             /\ new.result.allowed <=> new.count <= maxRequests]_vars

C5_Witness ==
    \E id \in DOMAIN last :
        /\ last[id].count = 1
        /\ last[id].windowStart > windowMs
        /\ last[id].result.allowed
        /\ id \in DOMAIN plain
        /\ id \in DOMAIN store

\* the allowed calls of id in the span (clock - windowMs, clock]
GrantsInSpan(id) == {i \in DOMAIN recent[id] : recent[id][i] > clock - windowMs}

\* C6 as claimed: no identifier is granted more than maxRequests allowed
\* requests within any time span of length windowMs.
C6_AnySpan ==
    \A id \in Identifiers : Cardinality(GrantsInSpan(id)) <= maxRequests

\* C6 as amended: within one window of the limiter an identifier is granted
\* at most maxRequests requests, and within any span of length windowMs
\* (the closed span [clock - windowMs, clock]) at most 2 * maxRequests - 1.
C6_PerWindow ==
    \A id \in Identifiers :
        /\ Len(recent[id]) <= 2 * maxRequests - 1
        /\ id \in DOMAIN last =>
             Cardinality({i \in DOMAIN recent[id] :
                            recent[id][i] >= last[id].windowStart}) <= maxRequests

C6_Witness ==
    \E id \in Identifiers :
        /\ Len(recent[id]) = 2 * maxRequests - 1
        /\ Cardinality(GrantsInSpan(id)) > maxRequests

\* C7: a client that was denied and sends its next request at a time
\* t >= the resetTime it was given is allowed.
C7_ResetTimeAdmits ==
    [][\A id \in Identifiers :
        ( /\ Called(id)
          /\ id \in DOMAIN last
          /\ ~last[id].result.allowed
          /\ clock >= parseISO(last[id].result.resetTime) )
        => last'[id].result.allowed]_vars

\* C8: the result of a call is the one a limiter that saw only the caller's
\* own requests gives.
C8_OwnRequestsOnly ==
    call.result = call.soloResult

C8_Witness ==
    /\ call.id = "a"
    /\ call.result.allowed
    /\ "unknown" \in DOMAIN store
    /\ store["unknown"].count > maxRequests
    /\ ~isStale(store["unknown"], clock)

\* C9: the sweep deletes only records whose window is over, and the result of
\* every call is the one a limiter that is never swept gives.
C9_SweepInvisible ==
    /\ call.result = call.plainResult
    /\ \A id \in DOMAIN plain \ DOMAIN store :
           clock - plain[id].resetTime > windowMs

C9_Witness ==
    /\ call.swept
    /\ call.result.allowed
    /\ call.result.remaining = maxRequests - 1

-----------------------------------------------------------------------------
(* Claims about the places proxy *)

RateLimitHeaders == {"X-RateLimit-Limit", "X-RateLimit-Remaining", "X-RateLimit-Reset"}

\* the response carries the three headers, holding the limiter's result
CarriesLimiterResult ==
    /\ RateLimitHeaders \subseteq DOMAIN res.headers
    /\ res.limited
    /\ res.headers["X-RateLimit-Limit"] = res.limitResult.limit
    /\ res.headers["X-RateLimit-Remaining"] = res.limitResult.remaining
    /\ res.headers["X-RateLimit-Reset"] = res.limitResult.resetTime

\* C10 as claimed: every response of the rate-limited endpoint (200, 204,
\* 400, 404, 429, 500) carries X-RateLimit-Limit, -Remaining and -Reset.
C10_EveryResponse ==
    res.status # 0 => CarriesLimiterResult

\* C10 as amended: every response other than the 204 that answers an OPTIONS
\* request carries the three headers with the limiter result of that request;
\* the 204 is sent before the limiter runs and carries none of them.
C10_AllButPreflight ==
    /\ res.status \notin {0, 204} => CarriesLimiterResult
    /\ res.status = 204 => ~res.limited /\ RateLimitHeaders \cap DOMAIN res.headers = {}

C10_Witness ==
    /\ res.status = 429
    /\ CarriesLimiterResult
    /\ res.headers["X-RateLimit-Remaining"] = 0

\* the messages the input validators throw
ValidatorMessages ==
    { "Invalid latitude", "Invalid longitude", "Invalid place ID format",
      "Invalid photo reference format", "Invalid number", "Invalid action",
      "Value must be a string", "String cannot be empty" }

\* C12: a request whose parameter is rejected by an input validator is
\* answered with a 400-class status carrying the validator's message, never
\* with 500.
C12_RejectionIs400 ==
    res.thrown \in ValidatorMessages =>
        /\ res.status >= 400 /\ res.status < 500
        /\ res.body = res.thrown

\* C13: a request one of whose parameters is rejected by a validator causes
\* no upstream fetch and no redirect.
C13_NoFetchAfterRejection ==
    res.thrown \in ValidatorMessages =>
        /\ res.fetches = 0
        /\ res.status # 307

C13_Witness ==
    /\ res.thrown = "Invalid number"
    /\ res.status = 400
    /\ res.fetches = 0

-----------------------------------------------------------------------------
(* Claims about the cache hierarchy of the events aggregator *)

KV_TTL_MS == KV_TTL_SEC * 1000

Range(seq) == {seq[i] : i \in DOMAIN seq}

\* the same payload, its events possibly put in another order by a sort
SamePayload(a, b) ==
    /\ a.updatedAt = b.updatedAt
    /\ a.count = b.count
    /\ Len(a.data) = Len(b.data)
    /\ Range(a.data) = Range(b.data)

\* the step starts a handler invocation
Starts(h) == handlers[h] = Idle /\ (handlers'[h] # Idle \/ resp'.tier = 1)

\* C1: a request handled while tier 1 is fresh is answered from tier 1 without
\* reading tier 2; a response from tier 1 or tier 2 invoked no adapter; a
\* tier-2 hit refills tier 1 with the payload at the request's time, so that a
\* request started within TTL_MS of it is again a tier-1 hit.
C1_CacheHits ==
    [][ /\ \A h \in Slots :
              (Starts(h) /\ CACHE.json # Null /\ clock - CACHE.at < TTL_MS)
              => /\ resp'.status = 200 /\ resp'.tier = 1
                 /\ resp'.payload = CACHE.json
                 /\ resp'.kvReads = 0
                 /\ handlers'[h] = Idle
        /\ resp'.tier \in {1, 2}
              => /\ resp'.invoked = NoCalls
                 /\ resp'.kvWrites = 0
                 /\ pending' = pending
        /\ resp'.tier = 2
              => /\ CACHE'.at = resp'.now
                 /\ SamePayload(CACHE'.json, resp'.payload)
                 /\ resp'.payload = kvStore.payload ]_vars

C1_Witness ==
    /\ resp.tier = 1
    /\ fromKv
    /\ resp.payload = CACHE.json
    /\ resp.now > CACHE.at
    /\ resp.now - CACHE.at < TTL_MS
    /\ resp.now - parseISO(resp.payload.updatedAt) >= TTL_MS

\* C2: a request that misses both tiers invokes every source adapter exactly
\* once and issues exactly one tier-2 write; no other request path writes
\* tier 2.
C2_EveryAdapterOnce ==
    /\ resp.tier = 0 => /\ \A a \in Adapters : resp.invoked[a] = 1
                        /\ resp.kvWrites = 1
    /\ resp.tier \in {1, 2} => resp.kvWrites = 0

\* C3 as claimed: every response serves a payload aggregated at most
\* KV_TTL_SEC before the request.
C3_AtMostKvTtl ==
    resp.status = 200 => resp.now - parseISO(resp.payload.updatedAt) <= KV_TTL_MS

\* C3 as amended: a payload the instance aggregated itself is served only to
\* requests made less than TTL_MS after its updatedAt; a payload read from
\* tier 2 is served by the tier-2 hit less than KV_TTL_SEC after its
\* updatedAt and from tier 1 less than KV_TTL_SEC + TTL_MS after it.
C3_WithinBothTtls ==
    resp.status = 200 =>
        LET age == resp.now - parseISO(resp.payload.updatedAt) IN
        CASE resp.tier = 0 -> age <= 0
          [] resp.tier = 2 -> age < KV_TTL_MS
          [] ~fromKv -> age < TTL_MS
          [] OTHER -> age < KV_TTL_MS + TTL_MS

C3_Witness ==
    /\ resp.status = 200
    /\ resp.tier = 1
    /\ fromKv
    /\ resp.now - parseISO(resp.payload.updatedAt) > KV_TTL_MS

\* C4: a tier-2 read that throws is treated as a miss and leads to a full
\* aggregation; a tier-2 write that throws or is still unsettled does not
\* keep the response back; every response has status 200 and, after a failed
\* read, carries the data aggregated by that request.
C4_KvFailuresInvisible ==
    /\ resp.status \notin {0, 204} => resp.status = 200
    /\ resp.kvThrew =>
          /\ resp.tier = 0
          /\ \A a \in InvokedAdapters : resp.invoked[a] = 1
          /\ resp.payload = buildPayload(upstreams, resp.query, resp.now,
                                          parseISO(resp.payload.updatedAt))
          /\ parseISO(resp.payload.updatedAt) >= resp.now
          /\ SamePayload(CACHE.json, resp.payload)
    /\ (resp.tier = 0 /\ resp.kvWrites = 1 /\ ~resp.setThrew) => resp.payload \in pending

C4_Witness ==
    /\ resp.status = 200
    /\ resp.kvThrew
    /\ resp.setThrew
    /\ kvStore # NoEntry
    /\ resp.payload # kvStore.payload
    /\ resp.payload.count > 0

-----------------------------------------------------------------------------
(* Claims about the events endpoint *)

\* the parameter ranges SECURITY.md gives for /api/events-lite
WithinDocumentedRanges(query) ==
    /\ query.lat # <<>> => query.lat[1] >= 0 - 9000 /\ query.lat[1] <= 9000
    /\ query.lng # <<>> => query.lng[1] >= 0 - 18000 /\ query.lng[1] <= 18000
    /\ query.radiusKm # <<>> => query.radiusKm[1] >= 1 /\ query.radiusKm[1] <= 50
    /\ query.limit # <<>> => query.limit[1] >= 1 /\ query.limit[1] <= 1000
    /\ query.bbox # <<>> => Len(query.bbox) = 4

\* the request touched no cache tier and no adapter
NoAggregationWork ==
    /\ resp.tier = -1
    /\ resp.kvReads = 0
    /\ resp.kvWrites = 0
    /\ resp.invoked = NoCalls

\* C11: a request with an out-of-range parameter is answered 400, a request
\* of a client over its limit is answered 429, and neither reads or writes a
\* cache tier or invokes an adapter.
C11_ValidatedAndLimitedFirst ==
    resp.status \notin {0, 204} =>
        /\ ~WithinDocumentedRanges(resp.query) =>
              resp.status = 400 /\ NoAggregationWork
        /\ (WithinDocumentedRanges(resp.query) /\ resp.nth > DocumentedLimit) =>
              resp.status = 429 /\ NoAggregationWork

\* the bbox of the query is a valid one
ValidBBox(bbox) == Len(bbox) = 4 /\ bbox[1] < bbox[3] /\ bbox[2] < bbox[4]

\* the events of both feeds in the order of aggregation, and the place of an
\* event's key in it
AllFeeds == Feed("fetchLinkedEvents") \o Feed("fetchMyHelsinkiEvents")

Rank(e) ==
    CHOOSE i \in DOMAIN AllFeeds :
        /\ dedupeKey(AllFeeds[i]) = dedupeKey(e)
        /\ \A j \in DOMAIN AllFeeds : dedupeKey(AllFeeds[j]) = dedupeKey(e) => i <= j

\* the limit as the claim reads the parameter
ClaimedLimit(query) ==
    IF query.limit = <<>> \/ query.limit[1] <= 0 THEN 200
    ELSE Max(1, Min(1000, query.limit[1]))

\* C18: a 200 response lists its events by non-increasing score, events of
\* equal score in aggregation order, holds at most limit events (limit
\* clamped to 1..1000, 200 when absent or not a positive number), and its
\* count is the number of events in data.
C18_SortedLimitedCounted ==
    resp.status = 200 =>
        LET data == resp.body.data IN
        /\ \A i, j \in DOMAIN data :
              i < j => \/ data[i].score > data[j].score
                       \/ /\ data[i].score = data[j].score
                          /\ Rank(data[i]) < Rank(data[j])
        /\ Len(data) <= ClaimedLimit(resp.query)
        /\ resp.body.count = Len(data)

C18_Witness ==
    /\ resp.status = 200
    /\ resp.query.limit = <<2>>
    /\ resp.body.count = 2
    /\ resp.payload.count = 5
    /\ resp.body.data[1].score > resp.body.data[2].score
    /\ resp.body.data[2] # resp.payload.data[2]

\* C19: with a valid bbox in the request, every event of the response lies
\* inside the box, whichever tier answers.
C19_InsideBBox ==
    (resp.status = 200 /\ resp.query.bbox # <<>> /\ ValidBBox(resp.query.bbox)) =>
        \A i \in DOMAIN resp.body.data :
            LET e == resp.body.data[i]
                box == resp.query.bbox
            IN  /\ box[1] <= e.lng /\ e.lng <= box[3]
                /\ box[2] <= e.lat /\ e.lat <= box[4]

\* the event is happening at time t (its end assumed when it has none)
HappeningAt(e, t) ==
    LET start == parseISO(e.startTime)
        end == IF e.endTime # NoTime THEN parseISO(e.endTime) ELSE start + 2 * Hour
    IN  start <= t /\ t <= end

\* C20: with liveOnly=true every event of the response is happening at the
\* time of the request, whichever tier answers.
C20_LiveOnlyIsLive ==
    (resp.status = 200 /\ resp.query.liveOnly) =>
        \A i \in DOMAIN resp.body.data : HappeningAt(resp.body.data[i], resp.now)

-----------------------------------------------------------------------------
(* Claims about the functions on events *)

\* the first event of L among those of key k that have the highest quality
FirstBest(L, k) ==
    CHOOSE i \in DOMAIN L :
        /\ dedupeKey(L[i]) = k
        /\ \A j \in DOMAIN L : dedupeKey(L[j]) = k =>
              \/ quality(L[j]) < quality(L[i])
              \/ quality(L[j]) = quality(L[i]) /\ i <= j

\* C14: the events of the input that share a dedup key are merged into
\* exactly one output event, the one of highest quality, the first of them
\* in input order when several have it.
C14_MergesToFirstBest ==
    result.fn = "dedupeEvents" =>
        LET L == arg.events
            out == result.once
        IN  /\ \A i \in DOMAIN L :
                  LET same == {j \in DOMAIN out : dedupeKey(out[j]) = dedupeKey(L[i])}
                  IN  /\ Cardinality(same) = 1
                      /\ \A j \in same : out[j] = L[FirstBest(L, dedupeKey(L[i]))]
            /\ \A j \in DOMAIN out : \E i \in DOMAIN L : out[j] = L[i]

C14_Witness ==
    /\ result.fn = "dedupeEvents"
    /\ Len(arg.events) = 3
    /\ Len(result.once) = 1
    /\ quality(arg.events[1]) < quality(arg.events[2])
    /\ quality(arg.events[2]) = quality(arg.events[3])
    /\ arg.events[2] # arg.events[3]
    /\ result.once[1] = arg.events[2]

\* C15: dedupeEvents applied to its own output returns the same events in the
\* same order.
C15_Idempotent ==
    result.fn = "dedupeEvents" => result.twice = result.once

C15_Witness ==
    /\ result.fn = "dedupeEvents"
    /\ Len(arg.events) = 3
    /\ Len(result.once) = 2
    /\ result.once[1] # arg.events[1]
    /\ result.twice = result.once

\* start <= now <= end and the span is within the ceiling of 12 h
LiveWithinCeiling(e, now, defaultDuration) ==
    LET start == parseISO(e.startTime)
        end == IF e.endTime # NoTime THEN parseISO(e.endTime)
               ELSE start + defaultDuration
    IN  start <= now /\ now <= end /\ end - start <= 12 * Hour

\* C16: isLiveNow is true iff start <= now <= end (the end being start + the
\* default duration when endTime is absent) and end - start is at most 12 h,
\* in the aggregator (default 2 h) and in the client (default 6 h).
C16_LiveIffWithinCeiling ==
    result.fn = "isLiveNow" =>
        /\ result.server <=> LiveWithinCeiling(arg.event, arg.now, 2 * Hour)
        /\ result.client <=> LiveWithinCeiling(arg.event, arg.now, 6 * Hour)

\* C17: of two events that differ only in their distance from a valid viewer
\* location the farther one never has the higher score, and no score is
\* negative.
C17_NearerScoresNoLower ==
    result.fn = "scoreEvent" =>
        LET near == calculateDistance(arg.userLat, arg.userLng, arg.event.lat, arg.event.lng)
            far == calculateDistance(arg.userLat, arg.userLng, arg.other.lat, arg.other.lng)
        IN  /\ result.score >= 0
            /\ result.other >= 0
            /\ near <= far => result.score >= result.other

C17_Witness ==
    /\ result.fn = "scoreEvent"
    /\ arg.userLat = 6027 /\ arg.userLng = 2500
    /\ arg.event.lat = 6018
    /\ arg.other.lat = 6017
    /\ result.score > result.other
    /\ result.other > 0

-----------------------------------------------------------------------------
(* Claims about the sources of the events aggregator *)

\* the adapters that failed: the upstream did not answer or its payload is
\* malformed
FailedAdapters == (InvokedAdapters \ upstreams) \cup undated

\* the latest step answered a request that ran a full aggregation
Aggregated == resp.status \notin {0, 204} /\ resp.invoked # NoCalls

\* C21: when one adapter fails and another returns events, the request is
\* answered 200 and the response is built from the events of the adapters
\* that succeeded.
C21_OneFailureIsTolerated ==
    (Aggregated /\ FailedAdapters # {} /\ InvokedAdapters \ FailedAdapters # {}) =>
        /\ resp.status = 200
        /\ resp.payload = buildPayload(InvokedAdapters \ FailedAdapters, resp.query, resp.now,
                                        parseISO(resp.payload.updatedAt))
        /\ resp.payload.count > 0

\* C22: when every adapter fails in a full aggregation, the request is
\* answered 500 with the generic error body, not 200 with an empty list.
C22_NothingUsableIs500 ==
    (Aggregated /\ upstreams = {}) =>
        /\ resp.status = 500
        /\ resp.body = Null

-----------------------------------------------------------------------------
(* Claims about interleaved handlers *)

\* the payload a handler that awaits its adapters stores when they settle
Stores(h) == buildPayload(upstreams, handlers[h].query, handlers[h].now, clock)

\* C23: two cold requests that interleave on one instance both run a full
\* aggregation and store equivalent payloads (the same events, whatever their
\* updatedAt), so that tier 1 and tier 2 hold the same whichever finishes last.
C23_InterleavedAggregationsAgree ==
    \A h1, h2 \in Slots :
        (h1 # h2 /\ handlers[h1].pc = "fetch" /\ handlers[h2].pc = "fetch") =>
            /\ Stores(h1).count = Stores(h2).count
            /\ Range(Stores(h1).data) = Range(Stores(h2).data)

\* C30 as claimed: no write to CACHE stores an at smaller than the one it
\* replaces, and at is never earlier than the moment the data of the stored
\* payload was fetched.
C30_AtNeverMovesBack ==
    [][ /\ CACHE'.at >= CACHE.at
        /\ CACHE'.json # Null => CACHE'.at >= parseISO(CACHE'.json.updatedAt) ]_vars

\* C30 as amended: every write to CACHE stores as at the time at which the
\* writing request started, which is not later than the time of the write
\* and, for a payload that the request aggregated, not later than its
\* updatedAt; no other step changes at.
C30_AtIsRequestStart ==
    [][ IF resp'.tier \in {0, 2}
        THEN /\ CACHE'.at = resp'.now
             /\ CACHE'.at <= clock'
             /\ resp'.tier = 0 => CACHE'.at <= parseISO(CACHE'.json.updatedAt)
        ELSE CACHE'.at = CACHE.at ]_vars

C30_Witness ==
    /\ resp.tier = 0
    /\ CACHE.at = resp.now
    /\ replaced > CACHE.at
    /\ CACHE.at < parseISO(CACHE.json.updatedAt)

-----------------------------------------------------------------------------
(* Claims about what the cache tiers hold *)

Ids(events) == {events[i].id : i \in DOMAIN events}

\* the request asks for every event: no bbox, no filter, the widest radius
\* and the default limit
Unfiltered(query) ==
    /\ query.bbox = <<>> /\ query.radiusKm = <<50>> /\ query.limit = <<>>
    /\ query.q = "" /\ query.category = "" /\ ~query.freeOnly /\ ~query.liveOnly

\* C24: the payload in tier 1 and tier 2 does not depend on the filter
\* parameters of the request that triggered the aggregation: it holds the
\* events of every feed, and a request without bbox sees them all, also when
\* a request with a bbox populated the cache.
C24_PayloadIndependentOfFilters ==
    /\ CACHE.json # Null => Ids(CACHE.json.data) = Ids(dedupeEvents(AllFeeds))
    /\ kvStore # NoEntry => Ids(kvStore.payload.data) = Ids(dedupeEvents(AllFeeds))
    /\ (resp.status = 200 /\ Unfiltered(resp.query)) =>
           Ids(resp.body.data) = Ids(dedupeEvents(AllFeeds))

\* C25: every event of a response carries the score that scoreEvent yields
\* for the lat / lng (and the time) of the request it answers, whichever
\* tier answers.
C25_ScoredForThisRequest ==
    resp.status = 200 =>
        LET p == parseQuery(resp.query) IN
        \A i \in DOMAIN resp.body.data :
            resp.body.data[i].score = scoreEvent(resp.body.data[i], p.lat, p.lng, resp.now)

\* C26: the data list of the payload in the tier-1 slot keeps its content and
\* its order for as long as the slot holds that payload.
C26_PayloadImmutable ==
    [][ ( /\ CACHE.json # Null
          /\ CACHE'.at = CACHE.at
          /\ CACHE'.json.updatedAt = CACHE.json.updatedAt )
        => CACHE'.json.data = CACHE.json.data ]_vars

-----------------------------------------------------------------------------
(* Claims about the score at the equator and the prime meridian *)

\* the score as the README's table gives it
TableScore(event, userLat, userLng, now) ==
    LET distanceKm == calculateDistance(userLat, userLng, event.lat, event.lng)
        untilStart == parseISO(event.startTime) - now
    IN  Max(0, 1000 - 10 * distanceKm
               + (IF event.isLiveNow THEN 500 ELSE 0)
               + (CASE untilStart > 0 /\ untilStart <= 2 * Hour -> 200
                    [] untilStart > 2 * Hour /\ untilStart <= 6 * Hour -> 100
                    [] untilStart > 6 * Hour /\ untilStart <= 24 * Hour -> 50
                    [] OTHER -> 0)
               + (IF event.priceType = "free" THEN 50 ELSE 0)
               + (IF event.imageUrl # "" THEN 25 ELSE 0)
               + (IF event.url # "" THEN 10 ELSE 0))

\* C27: for viewer coordinates of any latitude and longitude, 0 included, the
\* score is max(0, 1000 - 10 x distanceKm + the bonuses for live, starting
\* soon, free, image and url).
C27_ScoreIsTableScore ==
    result.fn = "scoreEvent" =>
        /\ result.score = TableScore(arg.event, arg.userLat, arg.userLng, arg.now)
        /\ result.other = TableScore(arg.other, arg.userLat, arg.userLng, arg.now)

-----------------------------------------------------------------------------
(* Claims about the window of the rate limiter *)

\* C29: a request made inside a client's window (not later than windowMs
\* after its start) leaves the window where it is: it returns the resetTime
\* the request before it returned, also when the client is over the limit and
\* the request is counted and denied.
C29_WindowNeverMoves ==
    [][\A id \in Identifiers :
        ( /\ Called(id)
          /\ id \in DOMAIN last
          /\ clock - last[id].windowStart <= windowMs )
        => /\ last'[id].windowStart = last[id].windowStart
           /\ last'[id].result.resetTime = last[id].result.resetTime
           /\ last'[id].count = last[id].count + 1]_vars

C29_Witness ==
    \E id \in DOMAIN last :
        /\ last[id].count > maxRequests
        /\ ~last[id].result.allowed
        /\ Len(recent[id]) = maxRequests
        /\ recent[id][1] = last[id].windowStart
        /\ recent[id][maxRequests] > last[id].windowStart
        /\ last[id].result.resetTime = toISOString(last[id].windowStart + windowMs)

-----------------------------------------------------------------------------
(* Claims about the liked events *)

\* C28: the count stored for each category is the number of liked events of
\* that category, and no two entries of the liked list have the same id.
C28_CountsMatchLikes ==
    /\ \A i, j \in DOMAIN likedEvents :
           i # j => likedEvents[i].id # likedEvents[j].id
    /\ \A event \in LikeableEvents :
           countOf(categoryPrefs, event.category)
               = Cardinality({i \in DOMAIN likedEvents :
                                 likedEvents[i].category = event.category})

====
